---- MODULE Spec2Model ----
(***************************************************************************)
(* Valuation and signal engine of the CPO monitor (src/app.py):            *)
(* fetch_data (quote fetch and return normalisation), calculate_fund_sim   *)
(* (weighted fund return) and check_signals (threshold alerts), run once   *)
(* per invocation by the module body.                                      *)
(*                                                                         *)
(* Numbers.  The program computes with Python floats and numpy.float64.    *)
(* A number is modelled as a record                                        *)
(*     [k, n, d, np]                                                       *)
(* k = "fin": the exact rational n/d in lowest terms, d > 0 (float         *)
(*            rounding is abstracted to exact arithmetic);                 *)
(* k = "nan", "inf", "ninf": the IEEE-754 specials numpy produces;         *)
(* k = "absent": no value (a missing key, or None);                        *)
(* np = TRUE for a numpy.float64, FALSE for a Python float: numpy          *)
(* division by zero yields inf/nan with a warning, Python float division   *)
(* by zero raises ZeroDivisionError.                                       *)
(***************************************************************************)
EXTENDS Integers, Sequences, FiniteSets, TLC

VARIABLES
    holdings,         \* HOLDINGS: the configured table, a sequence of [id, w]
    pc,               \* position of the module body / of fetch_data
    ticker,           \* fetch_data: index of the next ticker in the for loop
    column,           \* fetch_data: df_holdings['Close'][ticker] of the last iteration
    nq_hist,          \* fetch_data: nq.history(...) as received
    holdings_change,  \* current_changes / data_cache['holdings_change']
    holdings_price,   \* quotes / data_cache['holdings_price']
    nq_change,        \* data_cache['nq_change']
    nq_price,         \* data_cache['nq_price']
    sim_arg,          \* check_signals: its fund_sim_change argument
    fund_sim_val,     \* module body: fund_sim_val
    alerts,           \* module body: alerts (categories, in emission order)
    calls             \* the functions called so far by the module body, in order

vars == <<holdings, pc, ticker, column, nq_hist, holdings_change, holdings_price,
          nq_change, nq_price, sim_arg, fund_sim_val, alerts, calls>>

----------------------------------------------------------------------------
(* Bounds of the model *)

\* longest price history (rows) the provider delivers for one symbol
MaxHist == 3
\* most holdings whose individual feed is unavailable in one invocation
\* (the whole batch failing is a separate case and is not bounded by this)
MaxFaults == 2

----------------------------------------------------------------------------
(* Numbers *)

AbsInt(x) == IF x < 0 THEN -x ELSE x

RECURSIVE GCD(_, _)
GCD(a, b) == IF b = 0 THEN a ELSE GCD(b, a % b)

\* the rational n/d (d # 0) in lowest terms with a positive denominator
Fin(n, d, np) ==
    LET g == GCD(AbsInt(n), AbsInt(d))
        s == IF d < 0 THEN -1 ELSE 1
    IN  [k |-> "fin", n |-> (s * n) \div g, d |-> (s * d) \div g, np |-> np]

NaN    == [k |-> "nan",    n |-> 0, d |-> 1, np |-> TRUE]
PosInf == [k |-> "inf",    n |-> 0, d |-> 1, np |-> TRUE]
NegInf == [k |-> "ninf",   n |-> 0, d |-> 1, np |-> TRUE]
Absent == [k |-> "absent", n |-> 0, d |-> 1, np |-> FALSE]

\* the Python float literal 0.0 and a numpy.float64 read from a price frame
PyZero  == Fin(0, 1, FALSE)
Py(n, d) == Fin(n, d, FALSE)
Np(n, d) == Fin(n, d, TRUE)

IsFin(a)  == a.k = "fin"
IsZero(a) == a.k = "fin" /\ a.n = 0
Sign(a)   == CASE a.k = "inf"  -> 1
               [] a.k = "ninf" -> -1
               [] a.k = "fin"  -> (IF a.n > 0 THEN 1 ELSE IF a.n < 0 THEN -1 ELSE 0)
               [] OTHER        -> 0
Signed(s) == IF s > 0 THEN PosInf ELSE NegInf

\* same numeric value, whatever the float type
SameValue(a, b) == a.k = b.k /\ a.n = b.n /\ a.d = b.d

Neg(a) == CASE a.k = "fin"  -> [a EXCEPT !.n = -a.n]
            [] a.k = "inf"  -> NegInf
            [] a.k = "ninf" -> PosInf
            [] OTHER        -> a

Add(a, b) ==
    CASE a.k = "nan" \/ b.k = "nan" -> NaN
      [] IsFin(a) /\ IsFin(b) ->
            LET g == GCD(a.d, b.d)
                l == (a.d \div g) * b.d
            IN  Fin(a.n * (l \div a.d) + b.n * (l \div b.d), l, a.np \/ b.np)
      [] IsFin(a) -> b
      [] IsFin(b) -> a
      [] OTHER    -> IF a.k = b.k THEN a ELSE NaN

Sub(a, b) == Add(a, Neg(b))

Mul(a, b) ==
    CASE a.k = "nan" \/ b.k = "nan" -> NaN
      [] IsFin(a) /\ IsFin(b) ->
            LET g1 == GCD(AbsInt(a.n), b.d)
                g2 == GCD(AbsInt(b.n), a.d)
            IN  Fin((a.n \div g1) * (b.n \div g2), (a.d \div g2) * (b.d \div g1),
                    a.np \/ b.np)
      [] OTHER -> IF Sign(a) * Sign(b) = 0 THEN NaN ELSE Signed(Sign(a) * Sign(b))

\* Python raises ZeroDivisionError when both operands are Python floats
DivRaises(a, b) == IsZero(b) /\ ~a.np /\ ~b.np

\* a / b where it does not raise
Div(a, b) ==
    CASE a.k = "nan" \/ b.k = "nan" -> NaN
      [] IsZero(b) -> IF Sign(a) = 0 THEN NaN ELSE Signed(Sign(a))
      [] IsFin(b)  -> Mul(a, [b EXCEPT !.n = (IF b.n < 0 THEN -b.d ELSE b.d),
                                       !.d = AbsInt(b.n)])
      [] IsFin(a)  -> Fin(0, 1, a.np \/ b.np)
      [] OTHER     -> NaN

Abs(a) == CASE a.k = "fin"  -> [a EXCEPT !.n = AbsInt(a.n)]
            [] a.k = "ninf" -> PosInf
            [] OTHER        -> a

\* a > b; every comparison with nan is False
Gt(a, b) ==
    CASE a.k = "nan" \/ b.k = "nan" -> FALSE
      [] IsFin(a) /\ IsFin(b) -> Sign(Sub(a, b)) > 0
      [] OTHER -> (a.k = "inf" /\ b.k # "inf") \/ (b.k = "ninf" /\ a.k # "ninf")

----------------------------------------------------------------------------
(* Configuration *)

T1 == "300502.SZ"
T2 == "301377.SZ"

\* HOLDINGS, in declaration order (a dict keeps insertion order)
HOLDINGS == <<
    [id |-> "300502.SZ", w |-> Py(969, 10000)],
    [id |-> "301377.SZ", w |-> Py(964, 10000)],
    [id |-> "300308.SZ", w |-> Py(958, 10000)],
    [id |-> "688498.SS", w |-> Py(950, 10000)],
    [id |-> "600183.SS", w |-> Py(941, 10000)],
    [id |-> "002463.SZ", w |-> Py(914, 10000)],
    [id |-> "688195.SS", w |-> Py(903, 10000)],
    [id |-> "300476.SZ", w |-> Py(877, 10000)],
    [id |-> "688183.SS", w |-> Py(861, 10000)],
    [id |-> "601138.SS", w |-> Py(672, 10000)] >>

\* thresholds of check_signals
MacroThreshold     == Py(6, 1000)
ArbitrageThreshold == Py(1, 100)
SentimentThreshold == Py(3, 100)

Ids(h) == {h[i].id : i \in DOMAIN h}
Weight(h, t) == LET i == CHOOSE j \in DOMAIN h : h[j].id = t IN h[i].w

EmptyMap == [t \in {} |-> PyZero]
\* m[t] = v
Put(m, t, v) == [x \in DOMAIN m \cup {t} |-> IF x = t THEN v ELSE m[x]]
\* m.get(t, default)
Get(m, t, default) == IF t \in DOMAIN m THEN m[t] ELSE default

----------------------------------------------------------------------------
(* calculate_fund_sim *)

\* sum(HOLDINGS.values()): Python floats added left to right
RECURSIVE SumWeights(_, _)
SumWeights(h, i) ==
    IF i = 0 THEN PyZero ELSE Add(SumWeights(h, i - 1), h[i].w)

\* the for loop: total_weighted_change after the first i holdings
RECURSIVE WeightedChange(_, _, _)
WeightedChange(h, holdings_changes, i) ==
    IF i = 0 THEN PyZero
    ELSE Add(WeightedChange(h, holdings_changes, i - 1),
             Mul(Get(holdings_changes, h[i].id, PyZero), h[i].w))

\* total_weighted_change / total_weight raises ZeroDivisionError
FundSimRaises(h, holdings_changes) ==
    DivRaises(WeightedChange(h, holdings_changes, Len(h)), SumWeights(h, Len(h)))

\* faulty variant: the weights of the holdings present in the mapping only
RECURSIVE SumPresentWeights(_, _, _)
SumPresentWeights(h, holdings_changes, i) ==
    IF i = 0 THEN PyZero
    ELSE Add(SumPresentWeights(h, holdings_changes, i - 1),
             IF h[i].id \in DOMAIN holdings_changes THEN h[i].w ELSE PyZero)

\* faulty variant: a holding missing from the mapping is left out of the denominator
calculate_fund_sim_present(h, holdings_changes) ==
    Div(WeightedChange(h, holdings_changes, Len(h)),
        SumPresentWeights(h, holdings_changes, Len(h)))

calculate_fund_sim(h, holdings_changes) ==
    Div(WeightedChange(h, holdings_changes, Len(h)), SumWeights(h, Len(h)))

----------------------------------------------------------------------------
(* check_signals: the alert categories, in the order they are appended *)

\* faulty variant: >= in place of >
MacroShock_inclusive(nq) ==
    IF Gt(Abs(nq), MacroThreshold) \/ SameValue(Abs(nq), MacroThreshold)
    THEN <<"macro-shock">> ELSE <<>>

MacroShock(nq) ==
    IF Gt(Abs(nq), MacroThreshold) THEN <<"macro-shock">> ELSE <<>>

\* faulty variant: the absolute difference
Arbitrage_symmetric(nq, fund_sim_change) ==
    IF Gt(Abs(Sub(nq, fund_sim_change)), ArbitrageThreshold)
    THEN <<"arbitrage">> ELSE <<>>

Arbitrage(nq, fund_sim_change) ==
    IF Gt(Sub(nq, fund_sim_change), ArbitrageThreshold) THEN <<"arbitrage">> ELSE <<>>

\* faulty variant: the signed spread
Sentiment_signed(changes) ==
    IF Gt(Sub(Get(changes, T1, PyZero), Get(changes, T2, PyZero)), SentimentThreshold)
    THEN <<"sentiment-divergence">> ELSE <<>>

Sentiment(changes) ==
    LET c1 == Get(changes, T1, PyZero)
        c2 == Get(changes, T2, PyZero)
        spread == Sub(c1, c2)
    IN  IF Gt(Abs(spread), SentimentThreshold)
        THEN <<"sentiment-divergence">> ELSE <<>>

\* faulty variant: the sentiment rule evaluated first
check_signals_reordered(nq_entry, changes, fund_sim_change) ==
    LET nq == IF nq_entry.k = "absent" THEN PyZero ELSE nq_entry
    IN  Sentiment(changes) \o MacroShock(nq) \o Arbitrage(nq, fund_sim_change)

\* data = {'nq_change': nq_entry (or no such key), 'holdings_change': changes}
check_signals(nq_entry, changes, fund_sim_change) ==
    LET nq == IF nq_entry.k = "absent" THEN PyZero ELSE nq_entry
    IN  MacroShock(nq) \o Arbitrage(nq, fund_sim_change) \o Sentiment(changes)

----------------------------------------------------------------------------
(* fetch_data: normalisation of one price history *)

\* Series.dropna()
dropna(rows) == SelectSeq(rows, LAMBDA x : x.k # "nan")

Fallback == [change |-> PyZero, price |-> PyZero]

\* (last - prev) / prev inside a try block: an exception selects the fallback
ChangeOf(last, prev) ==
    IF DivRaises(Sub(last, prev), prev) THEN Fallback
    ELSE [change |-> Div(Sub(last, prev), prev), price |-> last]

\* faulty variant: the closes without dropna()
NormalizeHolding_nodropna(col) ==
    IF col.err THEN Fallback
    ELSE LET n == Len(col.rows)
         IN  IF n >= 2 THEN ChangeOf(col.rows[n], col.rows[n - 1]) ELSE Fallback

\* the body of the for loop for one ticker; col.err: the column lookup raised
NormalizeHolding(col) ==
    IF col.err THEN Fallback
    ELSE LET closes == dropna(col.rows)
             n == Len(closes)
         IN  IF n >= 2 THEN ChangeOf(closes[n], closes[n - 1]) ELSE Fallback

\* the NQ=F block; hist.err: yf.Ticker / history raised
NormalizeNQ(hist) ==
    IF hist.err THEN Fallback
    ELSE LET n == Len(hist.rows)
         IN  IF n >= 2 THEN ChangeOf(hist.rows[n], hist.rows[n - 1]) ELSE Fallback

----------------------------------------------------------------------------
(* What the quote provider may deliver *)

\* closes the provider may quote for a holding and for NQ=F
FeedCloses(t) ==
    IF t = T1 THEN {Np(0, 1), Np(1000, 1), Np(1040, 1)} ELSE {Np(1000, 1)}
NQCloses == {Np(0, 1), Np(1000, 1), Np(1020, 1)}

\* price histories of at most MaxHist rows, a row's close possibly missing
Histories(closes) == UNION {[1..n -> closes \cup {NaN}] : n \in 0..MaxHist}

Feeds(closes) ==
    {[err |-> FALSE, rows |-> r] : r \in Histories(closes)}
        \cup {[err |-> TRUE, rows |-> <<>>]}

NoFeed == [err |-> FALSE, rows |-> <<>>]

\* holdings whose entry is the fallback of a failed or too short feed
Faulty(prices) == {t \in DOMAIN prices : ~prices[t].np}

----------------------------------------------------------------------------
(* The module body and fetch_data *)

\* the state when the script starts, for the configured table h
Start(h) ==
    /\ holdings = h
    /\ pc = "start"
    /\ ticker = 1
    /\ column = NoFeed
    /\ nq_hist = NoFeed
    /\ holdings_change = EmptyMap
    /\ holdings_price = EmptyMap
    /\ nq_change = Absent
    /\ nq_price = Absent
    /\ sim_arg = Absent
    /\ fund_sim_val = Absent
    /\ alerts = <<>>
    /\ calls = <<>>

Init == Start(HOLDINGS)

\* market_data = fetch_data(): yf.download returns a frame
DownloadOk ==
    /\ pc = "start"
    /\ pc' = "loop"
    /\ calls' = Append(calls, "fetch_data")
    /\ UNCHANGED <<holdings, ticker, column, nq_hist, holdings_change, holdings_price,
                   nq_change, nq_price, sim_arg, fund_sim_val, alerts>>

\* market_data = fetch_data(): yf.download raises, the outer except fills zeros
DownloadFails ==
    /\ pc = "start"
    /\ pc' = "nq"
    /\ calls' = Append(calls, "fetch_data")
    /\ holdings_change' = [t \in Ids(holdings) |-> PyZero]
    /\ holdings_price' = [t \in Ids(holdings) |-> PyZero]
    /\ UNCHANGED <<holdings, ticker, column, nq_hist, nq_change, nq_price,
                   sim_arg, fund_sim_val, alerts>>

\* one iteration of "for ticker in tickers"
ProcessTicker ==
    /\ pc = "loop"
    /\ ticker <= Len(holdings)
    /\ \E col \in Feeds(FeedCloses(holdings[ticker].id)) :
          LET r == NormalizeHolding(col)
          IN  /\ r.price.np \/ Cardinality(Faulty(holdings_price)) < MaxFaults
              /\ column' = col
              /\ holdings_change' = Put(holdings_change, holdings[ticker].id, r.change)
              /\ holdings_price' = Put(holdings_price, holdings[ticker].id, r.price)
    /\ ticker' = ticker + 1
    /\ UNCHANGED <<holdings, pc, nq_hist, nq_change, nq_price, sim_arg, fund_sim_val,
                   alerts, calls>>

\* faulty variant: fetch_data returns when the loop is over, without the NQ=F block
StoreHoldings_return ==
    /\ pc = "loop"
    /\ ticker > Len(holdings)
    /\ pc' = "calc"
    /\ column' = NoFeed
    /\ UNCHANGED <<holdings, ticker, nq_hist, holdings_change, holdings_price,
                   nq_change, nq_price, sim_arg, fund_sim_val, alerts, calls>>

\* the loop is over: data_cache['holdings_change'], data_cache['holdings_price']
StoreHoldings ==
    /\ pc = "loop"
    /\ ticker > Len(holdings)
    /\ pc' = "nq"
    /\ column' = NoFeed
    /\ UNCHANGED <<holdings, ticker, nq_hist, holdings_change, holdings_price,
                   nq_change, nq_price, sim_arg, fund_sim_val, alerts, calls>>

\* the NQ=F block
FetchNQ ==
    /\ pc = "nq"
    /\ \E hist \in Feeds(NQCloses) :
          LET r == NormalizeNQ(hist)
          IN  /\ nq_hist' = hist
              /\ nq_change' = r.change
              /\ nq_price' = r.price
    /\ pc' = "return"
    /\ UNCHANGED <<holdings, ticker, column, holdings_change, holdings_price,
                   sim_arg, fund_sim_val, alerts, calls>>

\* return data_cache
FetchReturn ==
    /\ pc = "return"
    /\ pc' = "calc"
    /\ nq_hist' = NoFeed
    /\ ticker' = 1
    /\ UNCHANGED <<holdings, column, holdings_change, holdings_price, nq_change,
                   nq_price, sim_arg, fund_sim_val, alerts, calls>>

\* fund_sim_val = calculate_fund_sim(market_data['holdings_change'])
CalculateFundSim ==
    /\ pc = "calc"
    /\ calls' = Append(calls, "calculate_fund_sim")
    /\ IF FundSimRaises(holdings, holdings_change)
       THEN /\ pc' = "crashed"
            /\ UNCHANGED fund_sim_val
       ELSE /\ pc' = "signals"
            /\ fund_sim_val' = calculate_fund_sim(holdings, holdings_change)
    /\ UNCHANGED <<holdings, ticker, column, nq_hist, holdings_change, holdings_price,
                   nq_change, nq_price, sim_arg, alerts>>

\* alerts = check_signals(market_data, fund_sim_val)
CheckSignals ==
    /\ pc = "signals"
    /\ calls' = Append(calls, "check_signals")
    /\ sim_arg' = fund_sim_val
    /\ alerts' = check_signals(nq_change, holdings_change, fund_sim_val)
    /\ pc' = "done"
    /\ UNCHANGED <<holdings, ticker, column, nq_hist, holdings_change, holdings_price,
                   nq_change, nq_price, fund_sim_val>>

Next ==
    \/ DownloadOk
    \/ DownloadFails
    \/ ProcessTicker
    \/ StoreHoldings
    \/ FetchNQ
    \/ FetchReturn
    \/ CalculateFundSim
    \/ CheckSignals

Spec == Init /\ [][Next]_vars

----------------------------------------------------------------------------
(* calculate_fund_sim and check_signals as functions of their arguments:    *)
(* SpecFn applies each to arguments drawn from bounded sets, among them     *)
(* mappings that lack some holdings and a data dict without 'nq_change'.    *)

LeaderReturns == {Np(0, 1), Np(1, 100), Np(3, 100), Np(4, 100), Np(-4, 100)}
OtherReturn == Np(1, 100)
NqInputs == {Absent, NaN, PosInf, Np(-8, 1000), Np(-6, 1000), Np(0, 1),
             Np(6, 1000), Np(8, 1000), Np(2, 100)}
SimInputs == {NaN, Np(1, 1000), Np(5, 1000), Np(1, 100), Np(5, 100)}

\* mappings of returns with at most MaxFaults holdings missing
InitFn ==
    /\ holdings = HOLDINGS
    /\ pc = "fn"
    /\ ticker = 1
    /\ column = NoFeed
    /\ nq_hist = NoFeed
    /\ \E missing \in SUBSET Ids(HOLDINGS), a \in LeaderReturns, b \in LeaderReturns :
          /\ Cardinality(missing) <= MaxFaults
          /\ holdings_change =
                [t \in Ids(HOLDINGS) \ missing |->
                    IF t = T1 THEN a ELSE IF t = T2 THEN b ELSE OtherReturn]
    /\ holdings_price = EmptyMap
    /\ nq_change = Absent
    /\ nq_price = Absent
    /\ sim_arg = Absent
    /\ fund_sim_val = Absent
    /\ alerts = <<>>
    /\ calls = <<>>

\* calculate_fund_sim(holdings_change)
FnSimulate ==
    /\ pc = "fn"
    /\ calls' = Append(calls, "calculate_fund_sim")
    /\ IF FundSimRaises(holdings, holdings_change)
       THEN /\ pc' = "crashed"
            /\ UNCHANGED fund_sim_val
       ELSE /\ pc' = "fn_sim"
            /\ fund_sim_val' = calculate_fund_sim(holdings, holdings_change)
    /\ UNCHANGED <<holdings, ticker, column, nq_hist, holdings_change, holdings_price,
                   nq_change, nq_price, sim_arg, alerts>>

\* check_signals({'nq_change': nq, 'holdings_change': holdings_change}, sim)
FnEvaluate ==
    /\ pc = "fn"
    /\ calls' = Append(calls, "check_signals")
    /\ \E nq \in NqInputs, sim \in SimInputs :
          /\ nq_change' = nq
          /\ sim_arg' = sim
          /\ alerts' = check_signals(nq, holdings_change, sim)
    /\ pc' = "fn_sig"
    /\ UNCHANGED <<holdings, ticker, column, nq_hist, holdings_change, holdings_price,
                   nq_price, fund_sim_val>>

NextFn ==
    \/ FnSimulate
    \/ FnEvaluate

SpecFn == InitFn /\ [][NextFn]_vars

----------------------------------------------------------------------------
(* The script built with other holding tables: HOLDINGS is fixed when the   *)
(* script is written, so a table that breaks a configuration invariant is   *)
(* another build of the same code.  SpecCfg runs the code on such tables.   *)

\* every weight 0.0
ZeroWeights == [i \in DOMAIN HOLDINGS |-> [id |-> HOLDINGS[i].id, w |-> PyZero]]
\* the first sentiment-rule instrument is not a holding
NoLeader == Tail(HOLDINGS)

Configs == {HOLDINGS, ZeroWeights, NoLeader}

InitCfg == \E h \in Configs : Start(h)

SpecCfg == InitCfg /\ [][Next]_vars

----------------------------------------------------------------------------
(* Properties *)

Range(s) == {s[i] : i \in DOMAIN s}

\* the closes of a history that are not missing
Valid(rows) == SelectSeq(rows, LAMBDA x : IsFin(x))

\* the holding normalised by the last loop iteration
LastId == holdings[ticker - 1].id
HoldingNormalized == pc = "loop" /\ ticker > 1
NQNormalized == pc = "return"

\* C1: a price history with fewer than two valid closes (missing prices
\* discarded) normalises to return 0 and an absent latest price, for every
\* holding and for NQ=F.
C1_TooShortGivesZeroAndAbsentPrice ==
    /\ (HoldingNormalized /\ ~column.err /\ Len(Valid(column.rows)) < 2)
          => (IsZero(holdings_change[LastId]) /\ holdings_price[LastId].k = "absent")
    /\ (NQNormalized /\ ~nq_hist.err /\ Len(Valid(nq_hist.rows)) < 2)
          => (IsZero(nq_change) /\ nq_price.k = "absent")

\* the close before the latest one, among the valid closes
Prior(rows) == Valid(rows)[Len(Valid(rows)) - 1]

\* C2: a price history with at least two valid closes whose prior close is 0
\* normalises to return 0, for every holding and for NQ=F.
C2_ZeroPriorGivesZero ==
    /\ (HoldingNormalized /\ ~column.err /\ Len(Valid(column.rows)) >= 2
           /\ IsZero(Prior(column.rows)))
          => IsZero(holdings_change[LastId])
    /\ (NQNormalized /\ ~nq_hist.err /\ Len(Valid(nq_hist.rows)) >= 2
           /\ IsZero(Prior(nq_hist.rows)))
          => IsZero(nq_change)

\* a weight in ten-thousandths and a return in hundredths, as integers
W10k(w) == (w.n * 10000) \div w.d
R100(r) == (r.n * 100) \div r.d

\* sum over the holdings in S of weight * return, a return missing from the
\* mapping counting as 0 (in millionths)
RECURSIVE WeightedSum(_, _)
WeightedSum(S, changes) ==
    IF S = {} THEN 0
    ELSE LET t == CHOOSE x \in S : TRUE
         IN  W10k(Weight(HOLDINGS, t))
                 * (IF t \in DOMAIN changes THEN R100(changes[t]) ELSE 0)
             + WeightedSum(S \ {t}, changes)

\* sum of the weights of the holdings in S (in ten-thousandths)
RECURSIVE WeightSum(_)
WeightSum(S) ==
    IF S = {} THEN 0
    ELSE LET t == CHOOSE x \in S : TRUE
         IN  W10k(Weight(HOLDINGS, t)) + WeightSum(S \ {t})

\* C3: calculate_fund_sim returns sum(weight * return) / sum(weight) over
\* all declared holdings; a holding missing from the mapping adds 0 to the
\* numerator and keeps its weight in the denominator.
C3_WeightedAverage ==
    pc = "fn_sim" =>
        SameValue(fund_sim_val,
                  Fin(WeightedSum(Ids(HOLDINGS), holdings_change),
                      100 * WeightSum(Ids(HOLDINGS)), TRUE))

\* nine holdings at +0.01 and the last one missing: 0.01 * 0.8337 / 0.9009
C3_Witness ==
    /\ pc = "fn_sim"
    /\ DOMAIN holdings_change = Ids(HOLDINGS) \ {"601138.SS"}
    /\ \A t \in DOMAIN holdings_change : SameValue(holdings_change[t], Np(1, 100))
    /\ SameValue(fund_sim_val, Np(8337, 900900))

\* the reference return check_signals works with
RefReturn == IF nq_change.k = "absent" THEN PyZero ELSE nq_change

\* C4: the macro-shock alert is emitted iff |reference return| > 0.006,
\* whatever the simulated return and the holding returns.
C4_MacroShockIff ==
    pc = "fn_sig" =>
        ("macro-shock" \in Range(alerts)
            <=> CASE RefReturn.k = "fin" -> AbsInt(RefReturn.n) * 1000 > 6 * RefReturn.d
                  [] RefReturn.k = "nan" -> FALSE
                  [] OTHER -> TRUE)

\* reference +0.008 with simulated +0.001: macro-shock, no arbitrage
C4_Witness ==
    /\ pc = "fn_sig"
    /\ SameValue(nq_change, Np(8, 1000))
    /\ SameValue(sim_arg, Np(1, 1000))
    /\ "macro-shock" \in Range(alerts)
    /\ "arbitrage" \notin Range(alerts)

\* C5: the arbitrage alert is emitted iff reference return - simulated
\* return > 0.01; never when the simulated return exceeds the reference.
C5_ArbitrageIff ==
    pc = "fn_sig" =>
        ("arbitrage" \in Range(alerts)
            <=> CASE RefReturn.k = "nan" \/ sim_arg.k = "nan" -> FALSE
                  [] RefReturn.k = "fin" /\ sim_arg.k = "fin" ->
                        (RefReturn.n * sim_arg.d - sim_arg.n * RefReturn.d) * 100
                            > RefReturn.d * sim_arg.d
                  [] OTHER -> RefReturn.k = "inf")

\* reference +0.02 with simulated +0.005: arbitrage
C5_Witness ==
    /\ pc = "fn_sig"
    /\ SameValue(nq_change, Np(2, 100))
    /\ SameValue(sim_arg, Np(5, 1000))
    /\ "arbitrage" \in Range(alerts)

\* the return of t in the mapping, in hundredths, a missing one counting as 0
Return100(t) == IF t \in DOMAIN holdings_change THEN R100(holdings_change[t]) ELSE 0

\* C6: the sentiment-divergence alert is emitted iff |return(A) - return(B)|
\* > 0.03, A and B the two largest-weight holdings, a missing return counting
\* as 0, whatever the reference and simulated returns.
C6_SentimentIff ==
    /\ \A t \in Ids(HOLDINGS) \ {T1, T2} :
          /\ Gt(Weight(HOLDINGS, T1), Weight(HOLDINGS, t))
          /\ Gt(Weight(HOLDINGS, T2), Weight(HOLDINGS, t))
    /\ pc = "fn_sig" =>
          ("sentiment-divergence" \in Range(alerts)
              <=> AbsInt(Return100(T1) - Return100(T2)) > 3)

\* A missing from the mapping and B at +0.04: the spread is -0.04
C6_Witness ==
    /\ pc = "fn_sig"
    /\ T1 \notin DOMAIN holdings_change
    /\ T2 \in DOMAIN holdings_change
    /\ SameValue(holdings_change[T2], Np(4, 100))
    /\ "sentiment-divergence" \in Range(alerts)

AlertOrder == <<"macro-shock", "arbitrage", "sentiment-divergence">>

\* C7: check_signals returns, for every input (a mapping that lacks returns
\* among them), a sequence of alerts, and it is a subsequence of
\* (macro-shock, arbitrage, sentiment-divergence) in that order.
C7_AlertsOrdered ==
    /\ pc = "fn" =>
          \A nq \in NqInputs, sim \in SimInputs :
              Range(check_signals(nq, holdings_change, sim)) \subseteq Range(AlertOrder)
    /\ pc = "fn_sig" =>
          \E keep \in SUBSET (1..3) :
              alerts = SelectSeq(AlertOrder, LAMBDA c :
                          \E i \in keep : AlertOrder[i] = c)

\* all three alerts, with a return missing from the mapping
C7_Witness ==
    /\ pc = "fn_sig"
    /\ T1 \notin DOMAIN holdings_change
    /\ alerts = AlertOrder

\* (last - prev) / prev of two valid closes, prev # 0
ReturnOf(last, prev) == Fin(last.n * prev.d - prev.n * last.d, prev.n * last.d, TRUE)

\* C8 (state part): no error reaches the module body; once the holdings are fetched every holding
\* has a return; a holding or NQ=F whose fetch raised, or whose history is too
\* short, has return 0, and any other has the return of its own two latest
\* closes.
C8_FailuresGiveZero ==
    /\ pc # "crashed"
    /\ pc \in {"nq", "return", "calc", "signals", "done"}
          => /\ DOMAIN holdings_change = Ids(HOLDINGS)
             /\ DOMAIN holdings_price = Ids(HOLDINGS)
    /\ HoldingNormalized =>
          LET v == Valid(column.rows)
              n == Len(v)
          IN  IF column.err \/ n < 2
              THEN IsZero(holdings_change[LastId])
              ELSE ~IsZero(v[n - 1]) =>
                      SameValue(holdings_change[LastId], ReturnOf(v[n], v[n - 1]))
    /\ NQNormalized =>
          LET r == nq_hist.rows
              n == Len(r)
          IN  IF nq_hist.err \/ n < 2
              THEN IsZero(nq_change)
              ELSE (IsFin(r[n]) /\ IsFin(r[n - 1]) /\ ~IsZero(r[n - 1])) =>
                      SameValue(nq_change, ReturnOf(r[n], r[n - 1]))

\* C8 (step part): a return, once entered, is not changed by what happens to
\* the other instruments, and a failure of the whole batch gives every
\* holding return 0.
C8_EntriesKept ==
    /\ \A t \in DOMAIN holdings_change :
          t \in DOMAIN holdings_change' /\ holdings_change'[t] = holdings_change[t]
    /\ nq_change.k # "absent" => nq_change' = nq_change
    /\ (pc = "start" /\ pc' = "nq")
          => \A t \in Ids(HOLDINGS) :
                t \in DOMAIN holdings_change' /\ IsZero(holdings_change'[t])

ConfigViolation(h) ==
    \/ IsZero(SumWeights(h, Len(h)))
    \/ \E i, j \in DOMAIN h : i # j /\ h[i].id = h[j].id
    \/ T1 \notin Ids(h)
    \/ T2 \notin Ids(h)

\* C9: a configuration-invariant violation is detected at startup: with such
\* a table no fetch, simulation or signal evaluation runs, and none fails.
C9_ViolationStopsAtStartup ==
    ConfigViolation(holdings) => (calls = <<>> /\ pc = "start")

CallOrder == <<"fetch_data", "calculate_fund_sim", "check_signals">>

SnapshotComplete ==
    /\ DOMAIN holdings_change = Ids(HOLDINGS)
    /\ DOMAIN holdings_price = Ids(HOLDINGS)
    /\ nq_change.k # "absent"
    /\ nq_price.k # "absent"

\* C10 (state part): the calls are a prefix of fetch, simulate, evaluate; the
\* simulator starts on a complete snapshot; check_signals received the value
\* simulated from the snapshot it is given.
C10_OrderedOnSnapshot ==
    /\ \E n \in 0..Len(CallOrder) : calls = SubSeq(CallOrder, 1, n)
    /\ pc = "done" => calls = CallOrder
    /\ Len(calls) >= 2 => SnapshotComplete
    /\ pc = "done" =>
          /\ sim_arg = fund_sim_val
          /\ fund_sim_val = calculate_fund_sim(HOLDINGS, holdings_change)

\* C10 (step part): the snapshot is not modified once the simulator has
\* started, nor the simulated value once it is computed.
C10_SnapshotFrozen ==
    /\ Len(calls) >= 2 =>
          UNCHANGED <<holdings_change, holdings_price, nq_change, nq_price>>
    /\ fund_sim_val.k # "absent" => UNCHANGED fund_sim_val

\* C10: one invocation runs fetch, simulate, evaluate in that order, each
\* once, the last two on one complete snapshot that is no longer modified.
C10_FetchSimulateEvaluate == []C10_OrderedOnSnapshot /\ [][C10_SnapshotFrozen]_vars

\* an invocation that is done and raised an alert
C10_Witness ==
    /\ pc = "done"
    /\ calls = CallOrder
    /\ sim_arg.k = "fin"
    /\ alerts # <<>>

====
